---- MODULE Spec2Model ----
(***************************************************************************)
(* Model of the POST /pdf handler of the PDF thumbnail service             *)
(* (src/api/main.py, convert_pdf_to_image).  Every request in flight runs  *)
(* its own invocation of the handler; an invocation advances through the   *)
(* stages Received, Validated, Parsed, PageChecked, Rendered,              *)
(* PostProcessed, Encoded, Responded, or ends in Failed.                   *)
(***************************************************************************)
EXTENDS Integers, Sequences, FiniteSets, TLC

(***************************************************************************)
(* Bounds of the model.                                                    *)
(***************************************************************************)
NumRequests == 2
MaxPages == 2
MaxTinyDim == 3

Requests == 1..NumRequests

(***************************************************************************)
(* Program constants.                                                      *)
(***************************************************************************)
FILE_LIMIT == 10 * 1024 * 1024

max_dimension == 1200

\* compress_level=9 passed to save() for optimize=true
MaxCompressLevel == 9

\* Pillow's default deflate level, used when save() gets no compress_level
DefaultCompressLevel == 6

\* the prefix tested by content_type.startswith('application/pdf')
PdfPrefix ==
  <<"a","p","p","l","i","c","a","t","i","o","n","/","p","d","f">>

DetailNotPdf == "File must be a PDF"
DetailTooLarge == "File too large. Maximum size is 10MB"
DetailCorrupt == "Invalid PDF file or corrupted file"
DetailNoPages == "PDF file has no pages"
DetailInternal == "Internal server error while processing PDF"

\* text of the ValueError Image.resize raises when a target dimension is
\* below 1 (the call of line 223 with new_width or new_height 0)
ResizeZeroText == "height and width must be > 0"

(***************************************************************************)
(* Inputs.                                                                 *)
(***************************************************************************)
TextPlain == <<"t","e","x","t","/","p","l","a","i","n">>

\* file.content_type: absent (None) or a string
ContentTypes ==
  { [present |-> FALSE, value |-> <<>>],
    [present |-> TRUE, value |-> <<>>],
    [present |-> TRUE, value |-> TextPlain],
    [present |-> TRUE, value |-> SubSeq(PdfPrefix, 1, Len(PdfPrefix) - 1)],
    [present |-> TRUE, value |-> <<"x">> \o PdfPrefix],
    [present |-> TRUE, value |-> PdfPrefix],
    [present |-> TRUE, value |-> PdfPrefix \o <<";","q">>] }

\* len(file_content): a small upload and the lengths around the limit
Lengths == {1024, FILE_LIMIT - 1, FILE_LIMIT, FILE_LIMIT + 1}

\* width and height of the pixmap get_pixmap produces for page one
DimValues == (1..MaxTinyDim) \cup
  {max_dimension, max_dimension + 1, 2000, 5000}

\* the library call that raises for this body ("none": no call raises)
Faults == {"get_pixmap", "Image.open", "resize", "save"}

\* text of the exception a failing library call carries
Texts == {"e1", "e2"}

\* An uploaded body: its length, what fitz.open makes of it, what the
\* renderer makes of page one, and which library call (if any) it breaks.
CorruptBodies ==
  [len : Lengths, parses : {FALSE}, pages : {0}, w : {1}, h : {1},
   fault : {"none"}, text : Texts]

EmptyBodies ==
  [len : Lengths, parses : {TRUE}, pages : {0}, w : {1}, h : {1},
   fault : {"none"}, text : {"e1"}]

GoodBodies ==
  [len : Lengths, parses : {TRUE}, pages : 1..MaxPages, w : DimValues,
   h : DimValues, fault : {"none"}, text : {"e1"}]

FaultyBodies ==
  [len : Lengths, parses : {TRUE}, pages : 1..MaxPages, w : DimValues,
   h : DimValues, fault : Faults, text : Texts]

Bodies == CorruptBodies \cup EmptyBodies \cup GoodBodies \cup FaultyBodies

Inputs == [content_type : ContentTypes, body : Bodies, optimize : BOOLEAN]

\* the uploads used when several requests are in flight together
ConcBodies ==
  { b \in Bodies :
      /\ b.pages <= 1
      /\ b.w = b.h
      /\ b.w <= 2
      /\ b.fault \in {"none", "save"}
      /\ b.len \in {FILE_LIMIT, FILE_LIMIT + 1}
      /\ (b.len > FILE_LIMIT => b.parses /\ b.pages = 1 /\ b.w = 2
                                 /\ b.fault = "none")
      /\ (b.fault = "save" => b.w = 2) }

ConcInputs ==
  { i \in Inputs :
      /\ i.body \in ConcBodies
      /\ i.content_type.present
      /\ i.content_type.value \in {TextPlain, PdfPrefix}
      /\ (i.content_type.value = TextPlain =>
            i.body.len > FILE_LIMIT /\ ~i.optimize)
      /\ (i.optimize =>
            /\ i.body.parses
            /\ i.body.pages = 1
            /\ i.body.fault = "none"
            /\ i.body.len = FILE_LIMIT) }

(***************************************************************************)
(* State.                                                                  *)
(***************************************************************************)
VARIABLES
  req,        \* req[r]: content type, body and optimize flag of request r
  stage,      \* stage[r]: the stage the handler invocation has reached
  bodyRead,   \* bodyRead[r]: file.read() has been called
  opened,     \* opened[r]: fitz.open has been called
  docOpen,    \* docOpen[r]: pdf_document exists and close() was not called
  pil_image,  \* pil_image[r]: <<width, height>> of pil_image (<<0,0>>: none)
  new_size,   \* new_size[r]: <<new_width, new_height>> handed to resize
  img_buffer, \* img_buffer[r]: what save() wrote
  raised,     \* raised[r]: the exception that left the try body
  resp,       \* resp[r]: the HTTP response
  log         \* the records written through logger.error

vars == <<req, stage, bodyRead, opened, docOpen, pil_image, new_size,
          img_buffer, raised, resp, log>>

Stages == <<"Received", "Validated", "Parsed", "PageChecked", "Rendered",
            "PostProcessed", "Encoded", "Responded">>

Terminal == {"Responded", "Failed"}

NoImage == <<0, 0>>
NoSize == <<-1, -1>>
NoBuffer == [format |-> "none", size |-> NoImage, compress_level |-> 0,
             optimize |-> FALSE]
NoException == [type |-> "none", status_code |-> 0, detail |-> "",
                text |-> ""]
NoResponse == [status_code |-> 0, media_type |-> "", detail |-> "",
               content |-> NoBuffer]

HTTPException(status, detail) ==
  [type |-> "HTTPException", status_code |-> status, detail |-> detail,
   text |-> ""]

Exception(text) ==
  [type |-> "Exception", status_code |-> 0, detail |-> "", text |-> text]

Live == DOMAIN req

InitWith(live, inputs) ==
  /\ req \in [live -> inputs]
  /\ stage = [r \in live |-> "Received"]
  /\ bodyRead = [r \in live |-> FALSE]
  /\ opened = [r \in live |-> FALSE]
  /\ docOpen = [r \in live |-> FALSE]
  /\ pil_image = [r \in live |-> NoImage]
  /\ new_size = [r \in live |-> NoSize]
  /\ img_buffer = [r \in live |-> NoBuffer]
  /\ raised = [r \in live |-> NoException]
  /\ resp = [r \in live |-> NoResponse]
  /\ log = <<>>

\* one request in flight, any upload
InitOne == InitWith({1}, Inputs)

\* every request in flight at once
InitConc == InitWith(Requests, ConcInputs)

Init == InitOne \/ InitConc

(***************************************************************************)
(* Pure helpers.                                                           *)
(***************************************************************************)
Abs(n) == IF n < 0 THEN -n ELSE n

Max(a, b) == IF a >= b THEN a ELSE b

\* str.startswith
StartsWith(s, p) == Len(s) >= Len(p) /\ SubSeq(s, 1, Len(p)) = p

\* variant: the prefix is looked for at the end of the content type
IsPdfTypeSuffix(ct) ==
  /\ ct.present
  /\ Len(ct.value) >= Len(PdfPrefix)
  /\ SubSeq(ct.value, Len(ct.value) - Len(PdfPrefix) + 1, Len(ct.value))
       = PdfPrefix

\* the test of line 172, negated: the content type is accepted
IsPdfType(ct) == ct.present /\ ct.value # <<>> /\ StartsWith(ct.value, PdfPrefix)

\* variant: a body of exactly FILE_LIMIT bytes is refused
TooLargeInclusive(n) == n >= FILE_LIMIT

\* the test of line 182
TooLarge(n) == n > FILE_LIMIT

\* int(n * 0.6): the double product truncated (equal to floor(6n/10) for
\* every n below 2^50, the rounding error of 0.6 being under half an ulp)
Scale60(n) == (n * 6) \div 10

OptimizedSize(size) == <<Scale60(size[1]), Scale60(size[2])>>

\* keys of two candidates compared as fractions <<numerator, denominator>>
KeyLeq(a, b) == a[1] * b[2] <= b[1] * a[2]

\* math.floor and math.ceil of the number p/q
Floor(p, q) == p \div q

Ceil(p, q) == IF p % q = 0 THEN p \div q ELSE (p \div q) + 1

\* round_aspect of Image.thumbnail for the number p/q:
\* max(min(floor, ceil, key=key), 1); min keeps the first of equal keys.
\* key is a function on the two candidates.
RoundAspect(p, q, key) ==
  LET fl == Floor(p, q)
      ce == Ceil(p, q)
      best == IF KeyLeq(key[fl], key[ce]) THEN fl ELSE ce
  IN Max(best, 1)

\* preserve_aspect_ratio of Image.thumbnail((x, y)) on an image of size
\* <<w, h>>: the size the image is resized to.  The keys abs(aspect - n/y)
\* and abs(aspect - x/n), aspect = w/h, are kept as exact fractions with
\* the positive factor common to both candidates (h*y, resp. h) dropped.
ThumbnailSize(size, x, y) ==
  LET w == size[1]
      h == size[2]
      KeyX == [n \in {Floor(y * w, h), Ceil(y * w, h)} |->
                 <<Abs(w * y - n * h), 1>>]
      KeyY == [n \in {Floor(x * h, w), Ceil(x * h, w)} |->
                 IF n = 0 THEN <<0, 1>> ELSE <<Abs(w * n - x * h), n>>]
  IN IF x >= w /\ y >= h THEN size
     ELSE IF x * h >= y * w
          THEN <<RoundAspect(y * w, h, KeyX), y>>
          ELSE <<x, RoundAspect(x * h, w, KeyY)>>

\* variant: only the width is compared with max_dimension
NeedsThumbnailWidthOnly(size) == size[1] > max_dimension

\* the test of line 227
NeedsThumbnail(size) == size[1] > max_dimension \/ size[2] > max_dimension

\* the pixmap size get_pixmap returns for page one of request r
RenderedSize(r) == <<req[r].body.w, req[r].body.h>>

\* variant: pil_image is one module-level buffer, so the post-processing
\* reads what the latest post-processing of any request left in it
SharedImage(r) ==
  LET done == {q \in Live \ {r} : stage[q] = "PostProcessed"} IN
  IF done = {} THEN pil_image[r] ELSE pil_image[CHOOSE q \in done : TRUE]

\* the image the post-processing reads (the local pil_image)
CurrentImage(r) == pil_image[r]

\* variant: a single "except Exception" clause, which also catches
\* HTTPException
OuterHandlerCatchAll(e) ==
  [exc |-> HTTPException(500, DetailInternal),
   logged |-> << <<"Unexpected error processing PDF: ", e.text>> >>]

\* variant: the 500 carries str(e)
OuterHandlerLeaky(e) ==
  IF e.type = "HTTPException"
  THEN [exc |-> e, logged |-> <<>>]
  ELSE [exc |-> HTTPException(500, e.text),
        logged |-> << <<"Unexpected error processing PDF: ", e.text>> >>]

\* the outer except clauses: an HTTPException is re-raised unchanged, any
\* other exception is logged and replaced by the generic 500
OuterHandler(e) ==
  IF e.type = "HTTPException"
  THEN [exc |-> e, logged |-> <<>>]
  ELSE [exc |-> HTTPException(500, DetailInternal),
        logged |-> << <<"Unexpected error processing PDF: ", e.text>> >>]

\* the JSON error response FastAPI builds from an HTTPException
ErrorResponse(e) ==
  [status_code |-> e.status_code, media_type |-> "application/json",
   detail |-> e.detail, content |-> NoBuffer]

\* exception e leaves the try body of request r; inner holds the records
\* logged before it was raised
Raise(r, e, inner) ==
  LET h == OuterHandler(e) IN
  /\ raised' = [raised EXCEPT ![r] = e]
  /\ resp' = [resp EXCEPT ![r] = ErrorResponse(h.exc)]
  /\ log' = log \o inner \o h.logged
  /\ stage' = [stage EXCEPT ![r] = "Failed"]

\* the request moves on without raising
Advance(r, to) ==
  /\ stage' = [stage EXCEPT ![r] = to]
  /\ UNCHANGED <<raised, resp, log>>

(***************************************************************************)
(* The steps of the handler.                                               *)
(***************************************************************************)
\* lines 171-186: content-type gate, read, size gate
Validate(r) ==
  /\ stage[r] = "Received"
  /\ IF ~IsPdfType(req[r].content_type)
     THEN /\ Raise(r, HTTPException(400, DetailNotPdf), <<>>)
          /\ UNCHANGED bodyRead
     ELSE /\ bodyRead' = [bodyRead EXCEPT ![r] = TRUE]
          /\ IF TooLarge(req[r].body.len)
             THEN Raise(r, HTTPException(413, DetailTooLarge), <<>>)
             ELSE Advance(r, "Validated")
  /\ UNCHANGED <<req, opened, docOpen, pil_image, new_size, img_buffer>>

\* lines 188-196: fitz.open
Parse(r) ==
  /\ stage[r] = "Validated"
  /\ opened' = [opened EXCEPT ![r] = TRUE]
  /\ IF ~req[r].body.parses
     THEN /\ Raise(r, HTTPException(400, DetailCorrupt),
                   << <<"Failed to open PDF: ", req[r].body.text>> >>)
          /\ UNCHANGED docOpen
     ELSE /\ docOpen' = [docOpen EXCEPT ![r] = TRUE]
          /\ Advance(r, "Parsed")
  /\ UNCHANGED <<req, bodyRead, pil_image, new_size, img_buffer>>

\* lines 198-204: page count check
CheckPages(r) ==
  /\ stage[r] = "Parsed"
  /\ IF req[r].body.pages = 0
     THEN /\ docOpen' = [docOpen EXCEPT ![r] = FALSE]
          /\ Raise(r, HTTPException(400, DetailNoPages), <<>>)
     ELSE /\ Advance(r, "PageChecked")
          /\ UNCHANGED docOpen
  /\ UNCHANGED <<req, bodyRead, opened, pil_image, new_size, img_buffer>>

\* lines 206-216: get_pixmap, tobytes, Image.open
Render(r) ==
  /\ stage[r] = "PageChecked"
  /\ IF req[r].body.fault \in {"get_pixmap", "Image.open"}
     THEN /\ Raise(r, Exception(req[r].body.text), <<>>)
          /\ UNCHANGED pil_image
     ELSE /\ pil_image' = [pil_image EXCEPT ![r] = RenderedSize(r)]
          /\ Advance(r, "Rendered")
  /\ UNCHANGED <<req, bodyRead, opened, docOpen, new_size, img_buffer>>

\* lines 218-228: resize to 60% or thumbnail to max_dimension
PostProcess(r) ==
  /\ stage[r] = "Rendered"
  /\ IF req[r].optimize
     THEN LET target == OptimizedSize(CurrentImage(r)) IN
          /\ new_size' = [new_size EXCEPT ![r] = target]
          /\ IF req[r].body.fault = "resize"
             THEN /\ Raise(r, Exception(req[r].body.text), <<>>)
                  /\ UNCHANGED pil_image
             ELSE IF target[1] < 1 \/ target[2] < 1
             THEN /\ Raise(r, Exception(ResizeZeroText), <<>>)
                  /\ UNCHANGED pil_image
             ELSE /\ pil_image' = [pil_image EXCEPT ![r] = target]
                  /\ Advance(r, "PostProcessed")
     ELSE IF NeedsThumbnail(CurrentImage(r))
     THEN LET target == ThumbnailSize(CurrentImage(r), max_dimension,
                                      max_dimension) IN
          /\ new_size' = [new_size EXCEPT ![r] = target]
          /\ IF req[r].body.fault = "resize"
             THEN /\ Raise(r, Exception(req[r].body.text), <<>>)
                  /\ UNCHANGED pil_image
             ELSE /\ pil_image' = [pil_image EXCEPT ![r] = target]
                  /\ Advance(r, "PostProcessed")
     ELSE /\ Advance(r, "PostProcessed")
          /\ UNCHANGED <<pil_image, new_size>>
  /\ UNCHANGED <<req, bodyRead, opened, docOpen, img_buffer>>

\* lines 230-238: save as PNG
Encode(r) ==
  /\ stage[r] = "PostProcessed"
  /\ IF req[r].body.fault = "save"
     THEN /\ Raise(r, Exception(req[r].body.text), <<>>)
          /\ UNCHANGED img_buffer
     ELSE /\ img_buffer' = [img_buffer EXCEPT ![r] =
               [format |-> "PNG", size |-> pil_image[r],
                compress_level |-> IF req[r].optimize THEN MaxCompressLevel
                                   ELSE DefaultCompressLevel,
                optimize |-> req[r].optimize]]
          /\ Advance(r, "Encoded")
  /\ UNCHANGED <<req, bodyRead, opened, docOpen, pil_image, new_size>>

\* variant: the response is also built after the request has failed
RespondAfterFailure(r) ==
  /\ stage[r] \in {"Encoded", "Failed"}
  /\ docOpen' = [docOpen EXCEPT ![r] = FALSE]
  /\ resp' = [resp EXCEPT ![r] =
       [status_code |-> 200, media_type |-> "image/png", detail |-> "",
        content |-> img_buffer[r]]]
  /\ stage' = [stage EXCEPT ![r] = "Responded"]
  /\ UNCHANGED <<req, bodyRead, opened, pil_image, new_size, img_buffer,
                 raised, log>>

\* lines 240-248: close the document, return the image
Respond(r) ==
  /\ stage[r] = "Encoded"
  /\ docOpen' = [docOpen EXCEPT ![r] = FALSE]
  /\ resp' = [resp EXCEPT ![r] =
       [status_code |-> 200, media_type |-> "image/png", detail |-> "",
        content |-> img_buffer[r]]]
  /\ stage' = [stage EXCEPT ![r] = "Responded"]
  /\ UNCHANGED <<req, bodyRead, opened, pil_image, new_size, img_buffer,
                 raised, log>>

\* one step of the invocation serving request r
Handler(r) ==
  \/ Validate(r)
  \/ Parse(r)
  \/ CheckPages(r)
  \/ Render(r)
  \/ PostProcess(r)
  \/ Encode(r)
  \/ Respond(r)

Next ==
  \/ \E r \in Live : Validate(r)
  \/ \E r \in Live : Parse(r)
  \/ \E r \in Live : CheckPages(r)
  \/ \E r \in Live : Render(r)
  \/ \E r \in Live : PostProcess(r)
  \/ \E r \in Live : Encode(r)
  \/ \E r \in Live : Respond(r)

Spec == Init /\ [][Next]_vars

\* every invocation that can take a step eventually takes it
FairSpec == Spec /\ \A r \in Requests : WF_vars(r \in Live /\ Handler(r))

(***************************************************************************)
(* Properties.                                                             *)
(***************************************************************************)
PdfDeclared(r) ==
  /\ req[r].content_type.present
  /\ StartsWith(req[r].content_type.value, PdfPrefix)

\* the post-processing step has acted on request r
PostProcessActed(r) == pil_image[r] # NoImage /\ stage[r] # "Rendered"

\* position of a stage in the pipeline order
StageIndex(s) == CHOOSE i \in 1..Len(Stages) : Stages[i] = s

FixedDetails ==
  {DetailNotPdf, DetailTooLarge, DetailCorrupt, DetailNoPages, DetailInternal}

\* two uploads that differ at most in the text of the internal exception
SameButText(i, j) ==
  /\ i.content_type = j.content_type
  /\ i.optimize = j.optimize
  /\ [i.body EXCEPT !.text = ""] = [j.body EXCEPT !.text = ""]

\* C1: a request that has reached a terminal state (Responded or Failed)
\* no longer holds its parsed document open.
C1_HandleClosedAtExit ==
  \A r \in Live : stage[r] \in Terminal => ~docOpen[r]

\* C2: a request declared as application/pdf whose body parses with at
\* least one page and is at most 10,485,760 bytes long (and whose library
\* calls meet no fault of their own) never fails, and ends with HTTP 200
\* and a PNG body, for both values of optimize and every rendered size.
C2_ValidPdfReturnsPng ==
  \A r \in Live :
    ( /\ PdfDeclared(r)
      /\ req[r].body.parses
      /\ req[r].body.pages >= 1
      /\ req[r].body.len <= 10485760
      /\ req[r].body.fault = "none" )
    => /\ stage[r] # "Failed"
       /\ stage[r] = "Responded" =>
            /\ resp[r].status_code = 200
            /\ resp[r].content.format = "PNG"

\* C3: with optimize=true, once the post-processing has run on a rendered
\* page of w x h pixels, the image for the encoder is floor(0.6 w) wide and
\* floor(0.6 h) high, a truncated 0 being raised to 1 pixel.
C3_OptimizeSizeFloored ==
  \A r \in Live :
    (req[r].optimize /\ PostProcessActed(r) /\ req[r].body.fault = "none")
    => /\ stage[r] # "Failed"
       /\ pil_image[r] = << Max(1, (3 * req[r].body.w) \div 5),
                            Max(1, (3 * req[r].body.h) \div 5) >>

\* C4: with optimize=false the image handed to the encoder has the rendered
\* size when neither side exceeds 1200; otherwise its longer side is
\* exactly 1200, its shorter side is within one pixel of
\* shorter * 1200 / longer, and both sides are at least 1.
C4_StandardPolicySize ==
  \A r \in Live :
    (~req[r].optimize /\ stage[r] \in {"PostProcessed", "Encoded", "Responded"})
    => LET w == req[r].body.w
           h == req[r].body.h
           ow == pil_image[r][1]
           oh == pil_image[r][2]
       IN IF w <= 1200 /\ h <= 1200
          THEN ow = w /\ oh = h
          ELSE /\ ow >= 1 /\ oh >= 1
               /\ IF w >= h
                  THEN ow = 1200 /\ Abs(oh * w - h * 1200) <= w
                  ELSE oh = 1200 /\ Abs(ow * h - w * 1200) <= h

C4_Witness ==
  \E r \in Live :
    /\ ~req[r].optimize
    /\ stage[r] = "PostProcessed"
    /\ req[r].body.w = 1 /\ req[r].body.h = 5000
    /\ pil_image[r] = <<1, 1200>>

\* C5: for a request declared as PDF, a body longer than 10,485,760 bytes
\* is answered 413 without fitz.open ever being called, and a body of at
\* most 10,485,760 bytes is never answered 413 and goes on to parsing.
C5_SizeGateExact ==
  \A r \in Live :
    PdfDeclared(r) =>
      IF req[r].body.len > 10485760
      THEN /\ ~opened[r]
           /\ stage[r] \in {"Received", "Failed"}
           /\ stage[r] = "Failed" => resp[r].status_code = 413
      ELSE /\ resp[r].status_code # 413
           /\ stage[r] # "Received" => (stage[r] = "Validated" \/ opened[r])

C5_Witness ==
  \E r \in Live :
    /\ PdfDeclared(r)
    /\ req[r].body.len = 10485760
    /\ opened[r]

\* C6: a request whose content type is missing or does not begin with
\* application/pdf ends in 400 'File must be a PDF' whatever its body, and
\* its body is never read, measured or parsed.
C6_NonPdfRejectedUnread ==
  \A r \in Live :
    ~PdfDeclared(r) =>
      /\ ~bodyRead[r]
      /\ ~opened[r]
      /\ stage[r] \in {"Received", "Failed"}
      /\ stage[r] = "Failed" =>
           /\ resp[r].status_code = 400
           /\ resp[r].detail = "File must be a PDF"

C6_Witness ==
  \E r \in Live :
    /\ req[r].content_type.present
    /\ req[r].content_type.value # <<>>
    /\ ~PdfDeclared(r)
    /\ req[r].body.len > 10485760
    /\ stage[r] = "Failed"
    /\ resp[r].status_code = 400

\* C7: past both gates, a body that does not parse is answered 400
\* 'Invalid PDF file or corrupted file', a body that parses with no page is
\* answered 400 'PDF file has no pages', and an HTTPException raised in the
\* pipeline reaches the caller with its own status and detail (never 500).
C7_InputErrorsAre400 ==
  \A r \in Live :
    /\ (PdfDeclared(r) /\ req[r].body.len <= 10485760) =>
         /\ (~req[r].body.parses /\ opened[r]) =>
              /\ stage[r] = "Failed"
              /\ resp[r].status_code = 400
              /\ resp[r].detail = "Invalid PDF file or corrupted file"
         /\ (req[r].body.parses /\ req[r].body.pages = 0
               /\ stage[r] \notin {"Received", "Validated", "Parsed"}) =>
              /\ stage[r] = "Failed"
              /\ resp[r].status_code = 400
              /\ resp[r].detail = "PDF file has no pages"
    /\ raised[r].type = "HTTPException" =>
         /\ resp[r].status_code = raised[r].status_code
         /\ resp[r].detail = raised[r].detail
         /\ resp[r].status_code \in {400, 413}

C7_Witness ==
  \E r \in Live :
    /\ req[r].body.parses
    /\ req[r].body.pages = 0
    /\ stage[r] = "Failed"
    /\ raised[r].type = "HTTPException"
    /\ resp[r].detail = "PDF file has no pages"

\* a step changes a stage only from a non-terminal stage, to the next stage
\* of the pipeline or to Failed
StageStep ==
  \A r \in Live :
    stage'[r] # stage[r] =>
      /\ stage[r] \notin Terminal
      /\ \/ stage'[r] = "Failed"
         \/ StageIndex(stage'[r]) = StageIndex(stage[r]) + 1

\* a response, once produced, is never produced again or changed
RespondedOnce ==
  \A r \in Live : resp[r] # NoResponse => resp'[r] = resp[r]

\* C8: every request passes the stages in pipeline order, one at a time,
\* leaving a non-terminal stage only for the next one or for Failed; it
\* eventually reaches Responded or Failed; no step of it is enabled in a
\* terminal stage; and its response is produced once.
C8_StageOrder ==
  /\ [][StageStep /\ RespondedOnce]_vars
  /\ \A r \in Requests : <>(r \in Live => stage[r] \in Terminal)
  /\ [](\A r \in Live : stage[r] \in Terminal => ~ENABLED Handler(r))

C8_Witness ==
  /\ \A r \in Live : stage[r] \in Terminal
  /\ \E r \in Live : stage[r] = "Responded"
  /\ \E r \in Live : stage[r] = "Failed"

\* C9: an exception other than HTTPException ends the request in HTTP 500
\* with the fixed detail, its text going to the log; every failure detail
\* is one of the fixed strings; two finished requests that differ only in
\* the internal exception text have identical responses.
C9_GenericInternalError ==
  /\ \A r \in Live :
       /\ raised[r].type = "Exception" =>
            /\ stage[r] = "Failed"
            /\ resp[r].status_code = 500
            /\ resp[r].detail = "Internal server error while processing PDF"
            /\ \E k \in 1..Len(log) : log[k][2] = raised[r].text
       /\ stage[r] = "Failed" => resp[r].detail \in FixedDetails
  /\ \A r1, r2 \in Live :
       ( /\ SameButText(req[r1], req[r2])
         /\ stage[r1] \in Terminal
         /\ stage[r2] \in Terminal )
       => resp[r1] = resp[r2]

C9_Witness ==
  \E r1, r2 \in Live :
    /\ SameButText(req[r1], req[r2])
    /\ req[r1].body.text # req[r2].body.text
    /\ raised[r1].type = "Exception"
    /\ raised[r2].type = "Exception"
    /\ resp[r1].status_code = 500
    /\ resp[r2].status_code = 500

\* C10: under every interleaving, two requests with the same content type,
\* body and optimize flag that have both finished have the same outcome:
\* status, detail, output dimensions and compression setting.
C10_OutcomeFunctionOfInput ==
  \A r1, r2 \in Live :
    (req[r1] = req[r2] /\ stage[r1] \in Terminal /\ stage[r2] \in Terminal)
    => resp[r1] = resp[r2]

C10_Witness ==
  \E r1, r2 \in Live :
    /\ r1 # r2
    /\ req[r1] = req[r2]
    /\ req[r1].optimize
    /\ stage[r1] = "Responded"
    /\ stage[r2] = "Responded"
    /\ resp[r1].content.size = <<1, 1>>

====
